---- MODULE Spec2Model ----
(***************************************************************************)
(* State-machine model of the blog backend: signup, login, the JWT auth    *)
(* gate (python-jose), the per-user post cache (cachetools.TTLCache) and   *)
(* the three gated post handlers, over the users and posts tables.         *)
(***************************************************************************)
EXTENDS Integers, Sequences, FiniteSets, TLC

\* ------------------------------------------------------------------ bounds
\* Time is counted in ticks; a second holds TicksPerSecond ticks, so that the
\* truncation of datetimes to whole seconds (calendar.timegm) is visible.
MaxTime == 3
TicksPerSecond == 2
\* The server's local UTC offset is one of -TzSeconds, 0, +TzSeconds seconds
\* (a real offset is no shorter than the token lifetime).
TzSeconds == 2
\* timedelta(minutes=15), TTLCache(ttl=300) and TTLCache(maxsize=1000), scaled;
\* a token outlives a cache entry, as 900 s > 300 s.
TokenTTL == 3
ttl == 2
maxsize == 2
\* Cap on the rows of the posts table.
MaxPosts == 1

Emails == {"a@x.com", "b@x.com", "c@x.com"}
\* An email nobody signs up with.
Nobody == "nobody@x.com"
Passwords == {"pw1234", "wrongpw"}
Salts == {"s1"}
Texts == {"hello"}
\* Time that may pass inside one handler between two reads of the timer.
Elapsed == {0, 1}
TzOffsets == {-(TzSeconds * TicksPerSecond), 0, TzSeconds * TicksPerSecond}

SECRET_KEY == "secretkey"
ALGORITHM == "HS256"

VARIABLES users, posts, posts_cache, clock, tz, held, resp

vars == <<users, posts, posts_cache, clock, tz, held, resp>>

\* ------------------------------------------------------------ small helpers
Max(S) == CHOOSE x \in S : \A y \in S : y <= x

RECURSIVE SortedSeq(_)
\* The rows of S in increasing post_id order (SQLite scans the table in rowid order).
SortedSeq(S) ==
    IF S = {} THEN <<>>
    ELSE LET m == CHOOSE r \in S : \A q \in S : r.post_id <= q.post_id
         IN <<m>> \o SortedSeq(S \ {m})

\* -------------------------------------------------------- password hashing
\* argon2 PasswordHasher.hash: a salted, tagged digest, never the plaintext.
ph_hash(password, salt) ==
    [alg |-> "argon2id", salt |-> salt, digest |-> <<salt, password>>]

\* PasswordHasher.verify: recompute with the stored salt; FALSE stands for
\* VerifyMismatchError.
ph_verify(hash, password) == hash.digest = <<hash.salt, password>>

\* --------------------------------------------------------------- the store
None == [id |-> 0, email |-> "", hashed_password |-> ph_hash("", "")]

get_user_by_email(us, email) ==
    IF \E i \in DOMAIN us : us[i].email = email
    THEN us[CHOOSE i \in DOMAIN us : us[i].email = email]
    ELSE None

\* create_user with no unique index on email.
create_user_no_unique(us, email, password, salt) ==
    [ok |-> TRUE,
     users |-> Append(us, [id |-> Len(us) + 1, email |-> email,
                           hashed_password |-> ph_hash(password, salt)])]

\* create_user: the unique index on email makes the commit fail (IntegrityError,
\* rolled back); otherwise the row gets the next rowid.
create_user(us, email, password, salt) ==
    IF \E i \in DOMAIN us : us[i].email = email
    THEN [ok |-> FALSE, users |-> us]
    ELSE [ok |-> TRUE,
          users |-> Append(us, [id |-> Len(us) + 1, email |-> email,
                                hashed_password |-> ph_hash(password, salt)])]

\* An INTEGER PRIMARY KEY without AUTOINCREMENT: the largest rowid plus one.
NextPostId(ps) == IF ps = {} THEN 1 ELSE Max({p.post_id : p \in ps}) + 1

create_post(ps, text, user) ==
    LET new_post == [post_id |-> NextPostId(ps), text |-> text, user_id |-> user.id]
    IN [posts |-> ps \cup {new_post}, post_id |-> new_post.post_id]

\* The query without its filter_by(user_id=...).
QueryPostsByUser_unfiltered(ps, user_id) == SortedSeq(ps)

QueryPostsByUser(ps, user_id) == SortedSeq({p \in ps : p.user_id = user_id})

\* delete_post_by_post_id that never commits the delete.
delete_post_by_post_id_no_commit(ps, post_id) ==
    IF \E p \in ps : p.post_id = post_id
    THEN [ok |-> TRUE, posts |-> ps]
    ELSE [ok |-> FALSE, posts |-> ps]

delete_post_by_post_id(ps, post_id) ==
    IF \E p \in ps : p.post_id = post_id
    THEN [ok |-> TRUE, posts |-> {p \in ps : p.post_id # post_id}]
    ELSE [ok |-> FALSE, posts |-> ps]

\* ------------------------------------------------------------------ tokens
\* calendar.timegm(dt.utctimetuple()): whole seconds, the fraction dropped.
timegm(t) == t \div TicksPerSecond

\* The HMAC of header and claims under a key: equal exactly when all three are.
HS256(key, header, claims) == <<key, header, claims>>

\* The base64url text of a segment: its bytes, and the value of the bits of its
\* last character that carry no data (0 in what an encoder writes).
base64url_encode(bytes) == [bytes |-> bytes, spare |-> 0]

\* jose.utils.base64url_decode, i.e. base64.urlsafe_b64decode: the bits that
\* carry no data are dropped without a look.
base64url_decode(text) == text.bytes

\* jose.jwt.encode: a datetime "exp" becomes an intDate, then the claims are signed.
jwt_encode(claims, key, algorithm) ==
    LET c == ("exp" :> timegm(claims.exp)) @@ claims
        h == [alg |-> algorithm]
    IN [kind |-> "jws", header |-> h, claims |-> c,
        sig |-> base64url_encode(HS256(key, h, c))]

\* create_access_token: datetime.now() is the naive LOCAL time, which
\* utctimetuple() then reads as if it were UTC.
create_access_token(data, expires_delta, now_local) ==
    LET expire == now_local + expires_delta
        to_encode == ("exp" :> expire) @@ data
    IN jwt_encode(to_encode, SECRET_KEY, ALGORITHM)

\* jose.jwt.decode: structure, algorithm and signature (JWSError), then the exp
\* claim against utcnow(): expired when exp < now, both in whole seconds.
jwt_decode(token, key, now_utc) ==
    IF token.kind # "jws" THEN [ok |-> FALSE, error |-> "Not enough segments"]
    ELSE IF token.header.alg # ALGORITHM
        THEN [ok |-> FALSE, error |-> "The specified alg value is not allowed"]
    ELSE IF base64url_decode(token.sig) # HS256(key, token.header, token.claims)
        THEN [ok |-> FALSE, error |-> "Signature verification failed."]
    ELSE IF "exp" \in DOMAIN token.claims /\ token.claims.exp < timegm(now_utc)
        THEN [ok |-> FALSE, error |-> "Signature has expired."]
    ELSE [ok |-> TRUE, claims |-> token.claims]

\* verify_token: None on JWTError, on a missing or empty sub, on an unknown email.
verify_token(token, us, now_utc) ==
    LET decoded == jwt_decode(token, SECRET_KEY, now_utc)
    IN IF ~decoded.ok THEN None
       ELSE LET user_email == IF "sub" \in DOMAIN decoded.claims
                              THEN decoded.claims.sub ELSE ""
            IN IF user_email = "" THEN None
               ELSE get_user_by_email(us, user_email)

\* validate_user telling an unknown user from a bad token.
validate_user_leaks(token, us, now_utc) ==
    LET decoded == jwt_decode(token, SECRET_KEY, now_utc)
        user == verify_token(token, us, now_utc)
    IN IF user # None
       THEN [ok |-> TRUE, status |-> 200, detail |-> "", user |-> user]
       ELSE IF decoded.ok /\ "sub" \in DOMAIN decoded.claims /\ decoded.claims.sub # ""
       THEN [ok |-> FALSE, status |-> 404, detail |-> "User not found.", user |-> None]
       ELSE [ok |-> FALSE, status |-> 401, detail |-> "Unauthorized access.", user |-> None]

\* validate_user: HTTPException(401) when verify_token gives no user.
validate_user(token, us, now_utc) ==
    LET user == verify_token(token, us, now_utc)
    IN IF user = None
       THEN [ok |-> FALSE, status |-> 401, detail |-> "Unauthorized access.", user |-> None]
       ELSE [ok |-> TRUE, status |-> 200, detail |-> "", user |-> user]

\* ------------------------------------------------------------ the TTLCache
\* data: key -> [value, expires]; links: the keys, least recently used first.
EmptyCache == [data |-> <<>>, links |-> <<>>]

Without(s, k) == SelectSeq(s, LAMBDA x : x # k)

Restrict(f, S) == [x \in S |-> f[x]]

\* A listing as the cache holds it: the rows, and (for the record only) the
\* time of the query that produced them.
Listing(rows, asof) == [rows |-> rows, asof |-> asof]

\* TTLCache.expire(time): drop every entry with not (time < expires).
cache_expire(c, time) ==
    LET live == {k \in DOMAIN c.data : time < c.data[k].expires}
    IN [data |-> Restrict(c.data, live),
        links |-> SelectSeq(c.links, LAMBDA x : x \in live)]

\* __contains__ with the comparison the wrong way round.
cache_contains_inverted(c, key, time) ==
    key \in DOMAIN c.data /\ c.data[key].expires < time

\* __contains__ that does not look at the expiry.
cache_contains_no_ttl(c, key, time) == key \in DOMAIN c.data

\* TTLCache.__contains__: present and timer() < expires; the order is not touched.
cache_contains(c, key, time) ==
    key \in DOMAIN c.data /\ time < c.data[key].expires

\* __getitem__ that restamps the entry it reads.
cache_getitem_refreshes(c, key, time) ==
    IF key \notin DOMAIN c.data
    THEN [ok |-> FALSE, value |-> Listing(<<>>, 0), cache |-> c]
    ELSE LET c1 == [c EXCEPT !.links = Append(Without(c.links, key), key),
                             !.data[key].expires = time + ttl]
         IN IF time < c.data[key].expires
            THEN [ok |-> TRUE, value |-> c.data[key].value, cache |-> c1]
            ELSE [ok |-> FALSE, value |-> Listing(<<>>, 0), cache |-> c1]

\* __getitem__ that leaves the order of use alone.
cache_getitem_no_touch(c, key, time) ==
    IF key \notin DOMAIN c.data
    THEN [ok |-> FALSE, value |-> Listing(<<>>, 0), cache |-> c]
    ELSE IF time < c.data[key].expires
         THEN [ok |-> TRUE, value |-> c.data[key].value, cache |-> c]
         ELSE [ok |-> FALSE, value |-> Listing(<<>>, 0), cache |-> c]

\* TTLCache.__getitem__: the link lookup moves the key to the recent end, then an
\* absent or expired key is __missing__ (KeyError).
cache_getitem(c, key, time) ==
    IF key \notin DOMAIN c.data
    THEN [ok |-> FALSE, value |-> Listing(<<>>, 0), cache |-> c]
    ELSE LET c1 == [c EXCEPT !.links = Append(Without(c.links, key), key)]
         IN IF time < c.data[key].expires
            THEN [ok |-> TRUE, value |-> c.data[key].value, cache |-> c1]
            ELSE [ok |-> FALSE, value |-> Listing(<<>>, 0), cache |-> c1]

\* TTLCache.popitem: the least recently used key.
cache_popitem(c) ==
    LET key == Head(c.links)
    IN [data |-> Restrict(c.data, DOMAIN c.data \ {key}), links |-> Tail(c.links)]

RECURSIVE cache_make_room_late(_)
\* The room-making loop off by one: while currsize > maxsize.
cache_make_room_late(c) ==
    IF Cardinality(DOMAIN c.data) > maxsize /\ c.links # <<>>
    THEN cache_make_room_late(cache_popitem(c))
    ELSE c

RECURSIVE cache_make_room(_)
\* Cache.__setitem__: while currsize + 1 > maxsize: popitem().
cache_make_room(c) ==
    IF Cardinality(DOMAIN c.data) + 1 > maxsize /\ c.links # <<>>
    THEN cache_make_room(cache_popitem(c))
    ELSE c

\* TTLCache.__setitem__: expire(time), make room for a new key, store the value,
\* stamp it with time + ttl and make it the most recent.
cache_setitem(c, key, value, time) ==
    LET c1 == cache_expire(c, time)
        c2 == IF key \in DOMAIN c1.data THEN c1 ELSE cache_make_room(c1)
        entry == [value |-> value, expires |-> time + ttl]
    IN [data |-> (key :> entry) @@ c2.data,
        links |-> Append(Without(c2.links, key), key)]

\* get_all_posts_by_user_id that returns what it queried without storing it.
get_all_posts_by_user_id_no_store(ps, c, user_id, t_in, t_at) ==
    IF cache_contains(c, user_id, t_in)
    THEN LET got == cache_getitem(c, user_id, t_at)
         IN [ok |-> got.ok, posts |-> got.value, cache |-> got.cache, reads |-> 0]
    ELSE [ok |-> TRUE, posts |-> Listing(QueryPostsByUser(ps, user_id), t_at),
          cache |-> c, reads |-> 1]

\* get_all_posts_by_user_id: membership at time t_in, then either the read of
\* the entry or the query and the store, at time t_at >= t_in. ok is FALSE when
\* the read raises KeyError; reads counts the queries of the posts table.
get_all_posts_by_user_id(ps, c, user_id, t_in, t_at) ==
    IF cache_contains(c, user_id, t_in)
    THEN LET got == cache_getitem(c, user_id, t_at)
         IN [ok |-> got.ok, posts |-> got.value, cache |-> got.cache, reads |-> 0]
    ELSE LET listing == Listing(QueryPostsByUser(ps, user_id), t_at)
         IN [ok |-> TRUE, posts |-> listing,
             cache |-> cache_setitem(c, user_id, listing, t_at), reads |-> 1]

\* ------------------------------------------------------------ token inputs
NoToken == [kind |-> "none"]

Signed(claims) == jwt_encode(claims, SECRET_KEY, ALGORITHM)

\* A token create_access_token returns for data and an expiry in whole seconds.
TokenFor(data, exp_seconds) == Signed(("exp" :> exp_seconds * TicksPerSecond) @@ data)

\* Tokens carrying the process secret's signature, as presented at time now: for
\* each email one in its last accepted second and one a second past it, and
\* unexpired ones for an unknown email, an empty subject and no subject at all.
WellSigned(now_utc) ==
    {TokenFor([sub |-> e], x) : e \in Emails, x \in {timegm(now_utc) - 1, timegm(now_utc)}}
    \cup {TokenFor([sub |-> Nobody], timegm(now_utc)),
          TokenFor([sub |-> ""], timegm(now_utc)),
          TokenFor(<<>>, timegm(now_utc))}

\* One user's token with its signature made under another key, its expiry or
\* its subject altered under the old signature, its algorithm changed, or the
\* last character of its signature replaced by one differing in the spare bits.
Tampered(now_utc) ==
    LET valid == TokenFor([sub |-> "a@x.com"], timegm(now_utc))
        stale == TokenFor([sub |-> "a@x.com"], timegm(now_utc) - 1)
    IN {[valid EXCEPT !.sig =
                base64url_encode(HS256("otherkey", valid.header, valid.claims))],
        [valid EXCEPT !.sig.spare = 1],
        [stale EXCEPT !.claims = ("exp" :> (stale.claims.exp + 1)) @@ stale.claims],
        [valid EXCEPT !.claims = ("sub" :> "b@x.com") @@ valid.claims],
        [valid EXCEPT !.header = [alg |-> "none"]]}

Malformed == {[kind |-> "garbage"]}

TokenInputs(now_utc) == WellSigned(now_utc) \cup Tampered(now_utc) \cup Malformed

\* The tokens the post handlers are driven with: each email's current token, an
\* expired one and a malformed one (every rejected token leads to the same 401).
Presented(now_utc) ==
    {TokenFor([sub |-> e], timegm(now_utc)) : e \in Emails}
    \cup {TokenFor([sub |-> "a@x.com"], timegm(now_utc) - 1)} \cup Malformed

\* --------------------------------------------------------------- responses
\* The last response sent. For a listing, also what serving it did: reads counts
\* the queries of the posts table, asof is the time of the query the rows came
\* from, purged the keys dropped as expired and evicted the live keys dropped.
Response(op, status, detail) ==
    [op |-> op, status |-> status, detail |-> detail, access_token |-> NoToken,
     post_id |-> 0, posts |-> <<>>, user_id |-> 0,
     reads |-> 0, asof |-> 0, purged |-> {}, evicted |-> {}]

\* What a client holds: the credentials it used and the token they got it, with
\* the time and the operation that issued it.
NoHeld == [token |-> NoToken, iat |-> 0, sub |-> "", password |-> "", op |-> "none"]

Init ==
    /\ users = <<>>
    /\ posts = {}
    /\ posts_cache = EmptyCache
    /\ clock = 0
    /\ tz \in TzOffsets
    /\ held = NoHeld
    /\ resp = Response("none", 0, "")

\* Time passes.
Tick ==
    /\ clock < MaxTime
    /\ clock' = clock + 1
    /\ UNCHANGED <<users, posts, posts_cache, tz, held, resp>>

\* The client either keeps what it was just given or stays with what it has.
Keeps(r, email, password) ==
    held' \in {held, [token |-> r.access_token, iat |-> clock, sub |-> email,
                       password |-> password, op |-> r.op]}

\* signup_create_user: create_user, a 403 on IntegrityError, else a token.
signup_result(us, email, password, salt, now_local) ==
    LET created == create_user(us, email, password, salt)
    IN IF ~created.ok
       THEN [users |-> us,
             resp |-> Response("signup", 403, "User with given email already exists.")]
       ELSE [users |-> created.users,
             resp |-> [Response("signup", 200, "") EXCEPT !.access_token =
                            create_access_token([sub |-> email], TokenTTL, now_local)]]

\* POST /signup
signup_create_user(email, password, salt) ==
    LET r == signup_result(users, email, password, salt, clock + tz)
    IN /\ users' = r.users
       /\ resp' = r.resp
       /\ IF r.resp.status = 200 THEN Keeps(r.resp, email, password) ELSE held' = held
       /\ UNCHANGED <<posts, posts_cache, clock, tz>>

\* log_in answering a wrong password with another status than an unknown email.
log_in_result_401(us, email, password, now_local) ==
    LET user_from_db == get_user_by_email(us, email)
    IN IF user_from_db = None
       THEN Response("login", 404, "User with given email doesn't exists.")
       ELSE IF ~ph_verify(user_from_db.hashed_password, password)
       THEN Response("login", 401, "Given password doesn't match the email")
       ELSE [Response("login", 200, "") EXCEPT !.access_token =
                create_access_token([sub |-> email], TokenTTL, now_local)]

\* log_in: a 404 for an unknown email, a 404 on VerifyMismatchError, else a token.
log_in_result(us, email, password, now_local) ==
    LET user_from_db == get_user_by_email(us, email)
    IN IF user_from_db = None
       THEN Response("login", 404, "User with given email doesn't exists.")
       ELSE IF ~ph_verify(user_from_db.hashed_password, password)
       THEN Response("login", 404, "Given password doesn't match the email")
       ELSE [Response("login", 200, "") EXCEPT !.access_token =
                create_access_token([sub |-> email], TokenTTL, now_local)]

\* POST /login
log_in(email, password) ==
    LET r == log_in_result(users, email, password, clock + tz)
    IN /\ resp' = r
       /\ IF r.status = 200 THEN Keeps(r, email, password) ELSE held' = held
       /\ UNCHANGED <<users, posts, posts_cache, clock, tz>>

\* The auth gate on its own: the validate_user dependency run on a token.
authenticate(token) ==
    LET auth == validate_user(token, users, clock)
    IN /\ resp' = [Response("authenticate", auth.status, auth.detail) EXCEPT
                        !.user_id = auth.user.id]
       /\ UNCHANGED <<users, posts, posts_cache, clock, tz, held>>

\* add_post that drops the author's cached listing.
add_post_invalidates(token, text) ==
    LET auth == validate_user(token, users, clock)
        created == create_post(posts, text, auth.user)
        kept == DOMAIN posts_cache.data \ {auth.user.id}
    IN IF ~auth.ok
       THEN /\ resp' = Response("add_post", auth.status, auth.detail)
            /\ UNCHANGED <<users, posts, posts_cache, clock, tz, held>>
       ELSE /\ Cardinality(posts) < MaxPosts
            /\ posts' = created.posts
            /\ posts_cache' = [data |-> Restrict(posts_cache.data, kept),
                               links |-> Without(posts_cache.links, auth.user.id)]
            /\ resp' = [Response("add_post", 200, "") EXCEPT
                            !.post_id = created.post_id, !.user_id = auth.user.id]
            /\ UNCHANGED <<users, clock, tz, held>>

\* add_post that creates the post whatever validate_user said.
add_post_ungated(token, text) ==
    LET auth == validate_user(token, users, clock)
        created == create_post(posts, text, auth.user)
    IN /\ Cardinality(posts) < MaxPosts
       /\ posts' = created.posts
       /\ resp' = [Response("add_post", 200, "") EXCEPT
                       !.post_id = created.post_id, !.user_id = auth.user.id]
       /\ UNCHANGED <<users, posts_cache, clock, tz, held>>

\* POST /add-post/
add_post(token, text) ==
    LET auth == validate_user(token, users, clock)
        created == create_post(posts, text, auth.user)
    IN IF ~auth.ok
       THEN /\ resp' = Response("add_post", auth.status, auth.detail)
            /\ UNCHANGED <<users, posts, posts_cache, clock, tz, held>>
       ELSE /\ Cardinality(posts) < MaxPosts
            /\ posts' = created.posts
            /\ resp' = [Response("add_post", 200, "") EXCEPT
                            !.post_id = created.post_id, !.user_id = auth.user.id]
            /\ UNCHANGED <<users, posts_cache, clock, tz, held>>

\* The entries a call dropped from the cache: those already expired at time
\* (the caller's own, replaced by a new one, among them), and those still live.
Purged(c, c2, time) ==
    {k \in DOMAIN c.data : /\ ~(time < c.data[k].expires)
                           /\ (k \notin DOMAIN c2.data \/ c2.data[k] # c.data[k])}

Evicted(c, c2, time) ==
    {k \in DOMAIN c.data \ DOMAIN c2.data : time < c.data[k].expires}

\* GET /get-posts/ ; d ticks pass between the membership test and the next
\* read of the timer. An escaping KeyError is a 500.
get_post(token, d) ==
    LET auth == validate_user(token, users, clock)
        got == get_all_posts_by_user_id(posts, posts_cache, auth.user.id, clock, clock + d)
    IN IF ~auth.ok
       THEN /\ d = 0
            /\ resp' = Response("get_posts", auth.status, auth.detail)
            /\ UNCHANGED <<users, posts, posts_cache, clock, tz, held>>
       ELSE /\ clock + d <= MaxTime
            /\ clock' = clock + d
            /\ posts_cache' = got.cache
            /\ resp' = [Response("get_posts", IF got.ok THEN 200 ELSE 500,
                                 IF got.ok THEN "" ELSE "Internal Server Error") EXCEPT
                            !.posts = got.posts.rows, !.asof = got.posts.asof,
                            !.reads = got.reads, !.user_id = auth.user.id,
                            !.purged = Purged(posts_cache, got.cache, clock + d),
                            !.evicted = Evicted(posts_cache, got.cache, clock + d)]
            /\ UNCHANGED <<users, posts, tz, held>>

\* delete_post that does not depend on validate_user.
delete_post_ungated(token, post_id) ==
    LET auth == validate_user(token, users, clock)
        deleted == delete_post_by_post_id(posts, post_id)
    IN /\ posts' = deleted.posts
       /\ resp' = IF deleted.ok
                  THEN [Response("delete_post", 200, "Post deleted successfully!")
                           EXCEPT !.user_id = auth.user.id]
                  ELSE [Response("delete_post", 404, "Post not found")
                           EXCEPT !.user_id = auth.user.id]
       /\ UNCHANGED <<users, posts_cache, clock, tz, held>>

\* DELETE /delete-post/
delete_post(token, post_id) ==
    LET auth == validate_user(token, users, clock)
        deleted == delete_post_by_post_id(posts, post_id)
    IN IF ~auth.ok
       THEN /\ resp' = Response("delete_post", auth.status, auth.detail)
            /\ UNCHANGED <<users, posts, posts_cache, clock, tz, held>>
       ELSE /\ posts' = deleted.posts
            /\ resp' = IF deleted.ok
                       THEN [Response("delete_post", 200, "Post deleted successfully!")
                                EXCEPT !.user_id = auth.user.id]
                       ELSE [Response("delete_post", 404, "Post not found")
                                EXCEPT !.user_id = auth.user.id]
            /\ UNCHANGED <<users, posts_cache, clock, tz, held>>

PostIds == 1..(MaxPosts + 1)

\* ---------------------------------------------------------- specifications
\* The whole service.
Next ==
    \/ Tick
    \/ \E e \in Emails, p \in Passwords, s \in Salts : signup_create_user(e, p, s)
    \/ \E e \in Emails, p \in Passwords : log_in(e, p)
    \/ \E t \in TokenInputs(clock) \cup {held.token} : authenticate(t)
    \/ \E t \in Presented(clock), x \in Texts : add_post(t, x)
    \/ \E t \in Presented(clock), d \in Elapsed : get_post(t, d)
    \/ \E t \in Presented(clock), i \in PostIds : delete_post(t, i)

Spec == Init /\ [][Next]_vars

\* Accounts and tokens: signup, login and the auth gate from the empty store;
\* c@x.com never signs up here.
NextAuth ==
    \/ Tick
    \/ \E e \in Emails \ {"c@x.com"}, p \in Passwords, s \in Salts :
            signup_create_user(e, p, s)
    \/ \E e \in Emails, p \in Passwords : log_in(e, p)
    \/ \E t \in TokenInputs(clock) \cup {held.token} : authenticate(t)

SpecAuth == Init /\ [][NextAuth]_vars

\* Posts and their cache: the gated handlers once the three emails have signed
\* up (at time 0, on a server in UTC, their tokens not kept).
Registered ==
    LET u1 == create_user(<<>>, "a@x.com", "pw1234", "s1").users
        u2 == create_user(u1, "b@x.com", "pw1234", "s1").users
    IN create_user(u2, "c@x.com", "wrongpw", "s1").users

InitPosts ==
    /\ users = Registered
    /\ posts = {}
    /\ posts_cache = EmptyCache
    /\ clock = 0
    /\ tz = 0
    /\ held = NoHeld
    /\ resp = [Response("signup", 200, "") EXCEPT
                    !.access_token = create_access_token([sub |-> "c@x.com"], TokenTTL, 0)]

NextPosts ==
    \/ Tick
    \/ \E t \in Presented(clock), x \in Texts : add_post(t, x)
    \/ \E t \in Presented(clock), d \in Elapsed : get_post(t, d)
    \/ \E t \in Presented(clock), i \in PostIds : delete_post(t, i)

SpecPosts == InitPosts /\ [][NextPosts]_vars

\* The posts table on its own: the gated writers once a@x.com and b@x.com have
\* each posted (on a server in UTC); nothing is listed, so the cache stays empty.
TwoPosts ==
    LET p1 == create_post({}, "hello", Registered[1]).posts
    IN create_post(p1, "hello", Registered[2]).posts

InitStore ==
    /\ users = Registered
    /\ posts = TwoPosts
    /\ posts_cache = EmptyCache
    /\ clock = 0
    /\ tz = 0
    /\ held = NoHeld
    /\ resp = [Response("add_post", 200, "") EXCEPT !.post_id = 2, !.user_id = 2]

NextStore ==
    \/ Tick
    \/ \E t \in Presented(clock), x \in Texts : add_post(t, x)
    \/ \E t \in Presented(clock), i \in PostIds : delete_post(t, i)

SpecStore == InitStore /\ [][NextStore]_vars

\* One client going through the service from the empty store, within the
\* lifetime of the token its signup returned: signup, login, a post, a listing,
\* the post's deletion, and a listing once the cached one has expired.
ScenarioTick ==
    /\ held.op # "none" => clock + 1 < held.iat + TokenTTL
    /\ Tick

ScenarioSignup ==
    /\ resp.op = "none"
    /\ signup_create_user("a@x.com", "pw1234", "s1")
    /\ held'.op = "signup"

ScenarioLogin ==
    /\ resp.op = "signup"
    /\ log_in("a@x.com", "pw1234")
    /\ held' = held

ScenarioCreate ==
    /\ resp.op = "login"
    /\ add_post(held.token, "hello")

ScenarioList ==
    /\ resp.op = "add_post"
    /\ \E d \in Elapsed :
            /\ clock + d < held.iat + TokenTTL
            /\ get_post(held.token, d)

ScenarioDelete ==
    /\ resp.op = "get_posts"
    /\ posts # {}
    /\ delete_post(held.token, 1)

ScenarioListAgain ==
    /\ resp.op = "delete_post"
    /\ \A u \in DOMAIN posts_cache.data : clock >= posts_cache.data[u].value.asof + ttl
    /\ \E d \in Elapsed :
            /\ clock + d < held.iat + TokenTTL
            /\ get_post(held.token, d)

NextScenario ==
    \/ ScenarioTick
    \/ ScenarioSignup
    \/ ScenarioLogin
    \/ ScenarioCreate
    \/ ScenarioList
    \/ ScenarioDelete
    \/ ScenarioListAgain

SpecScenario == Init /\ [][NextScenario]_vars

\* ------------------------------------------------------------------ claims
\* C1: a token issued at time t0 with lifetime T (TokenTTL for signup and login)
\* authenticates at every time t < t0 + T and is Unauthorized at every time
\* t >= t0 + T, the instant t0 + T included.
C1_TokenLifetime ==
    held.op # "none" =>
        (validate_user(held.token, users, clock).ok <=> clock < held.iat + TokenTTL)

\* C2: after signup(email, password) succeeds, login with the same credentials
\* succeeds, and (within the token lifetime) the token signup returned and the
\* token login returns both authenticate to the same stored user, whose email is
\* that email.
C2_SignupLoginAuthenticate ==
    held.op = "signup" =>
        LET r == log_in_result(users, held.sub, held.password, clock + tz)
            a1 == validate_user(held.token, users, clock)
            a2 == validate_user(r.access_token, users, clock)
        IN /\ r.status = 200
           /\ clock < held.iat + TokenTTL =>
                /\ a1.ok /\ a2.ok
                /\ a1.user = a2.user
                /\ a1.user.email = held.sub

\* Whether the cache holds an unexpired entry for user_id at time.
Live(user_id, time) ==
    user_id \in DOMAIN posts_cache.data /\ time < posts_cache.data[user_id].expires

\* C3: a listing call reads the posts table exactly once when the user has no
\* live cache entry and not at all when there is one; of two calls in a row for
\* one user, the second falling within the TTL, at most one reads the table and
\* the second returns what the first returned.
C3_ReadsOnceOrNever ==
    [][\A t \in Presented(clock), d \in Elapsed :
        LET auth == validate_user(t, users, clock)
            u == auth.user.id
        IN (auth.ok /\ get_post(t, d)) =>
            /\ ~Live(u, clock) =>
                    /\ resp'.status = 200 /\ resp'.reads = 1
                    /\ resp'.posts = QueryPostsByUser(posts, u)
            /\ Live(u, clock) => resp'.reads = 0
            /\ Live(u, clock + d) =>
                    /\ resp'.status = 200
                    /\ resp'.posts = posts_cache.data[u].value.rows
            /\ (Live(u, clock + d) /\ resp.op = "get_posts" /\ resp.status = 200
                    /\ resp.user_id = u) =>
                    /\ resp.reads + resp'.reads <= 1
                    /\ resp'.posts = resp.posts]_vars

\* A listing served from the cache, posts and all.
C3_Witness ==
    /\ resp.op = "get_posts" /\ resp.status = 200
    /\ resp.reads = 0 /\ resp.posts # <<>>

\* C4: once the TTL has passed since a user's entry was populated, the user's
\* next listing call reads the posts table, returns the user's posts as the table
\* holds them then, and leaves the entry repopulated with that and a new stamp.
C4_ExpiredEntryReloaded ==
    [][\A t \in Presented(clock), d \in Elapsed :
        LET auth == validate_user(t, users, clock)
            u == auth.user.id
        IN (/\ auth.ok /\ get_post(t, d)
            /\ u \in DOMAIN posts_cache.data
            /\ clock >= posts_cache.data[u].value.asof + ttl) =>
            /\ resp'.status = 200 /\ resp'.reads = 1
            /\ resp'.posts = QueryPostsByUser(posts, u)
            /\ u \in DOMAIN posts_cache'.data
            /\ posts_cache'.data[u] =
                    [value |-> Listing(QueryPostsByUser(posts, u), clock'),
                     expires |-> clock' + ttl]]_vars

\* A call that found the user's entry expired, and read the table anew.
C4_Witness ==
    /\ resp.op = "get_posts" /\ resp.status = 200 /\ resp.reads = 1
    /\ resp.user_id \in resp.purged
    /\ resp.posts # <<>>

\* C5: every listing returned is the user's posts as the table held them at an
\* instant no more than the TTL before the return: an entry is written only with
\* the table's listing of that moment, is never altered or restamped afterwards
\* (not by reads either), and is never returned at an age above the TTL.
C5_BoundedStaleness ==
    [][/\ \A u \in DOMAIN posts_cache'.data :
            (u \notin DOMAIN posts_cache.data
                \/ posts_cache'.data[u] # posts_cache.data[u]) =>
            posts_cache'.data[u] =
                [value |-> Listing(QueryPostsByUser(posts', u), clock'),
                 expires |-> clock' + ttl]
       /\ \A t \in Presented(clock), d \in Elapsed :
            LET auth == validate_user(t, users, clock)
                u == auth.user.id
            IN (auth.ok /\ get_post(t, d) /\ resp'.status = 200) =>
                /\ clock' - resp'.asof <= ttl
                /\ \/ /\ resp'.reads = 1 /\ resp'.asof = clock'
                      /\ resp'.posts = QueryPostsByUser(posts, u)
                   \/ /\ resp'.reads = 0 /\ u \in DOMAIN posts_cache.data
                      /\ Listing(resp'.posts, resp'.asof) = posts_cache.data[u].value]_vars

\* A listing served from the cache that the table has since moved on from.
C5_Witness ==
    /\ resp.op = "get_posts" /\ resp.status = 200 /\ resp.reads = 0
    /\ resp.asof < clock
    /\ resp.posts # QueryPostsByUser(posts, resp.user_id)

\* C6 as claimed: login with an unknown email and login with a known email and
\* a wrong password give the same error kind and the same message.
C6_SameOutcome ==
    \A e1 \in Emails, e2 \in Emails, p \in Passwords :
        LET r1 == log_in_result(users, e1, p, clock + tz)
            r2 == log_in_result(users, e2, p, clock + tz)
        IN (/\ get_user_by_email(users, e1) = None
            /\ get_user_by_email(users, e2) # None /\ r2.status # 200) =>
            r1.status = r2.status /\ r1.detail = r2.detail

\* C6 as amended: the two failures share the error kind (404) and differ in the
\* message, which names the factor that failed.
C6_SameStatusOnly ==
    \A e \in Emails, p \in Passwords :
        LET r == log_in_result(users, e, p, clock + tz)
            known == \E i \in DOMAIN users : users[i].email = e
        IN r.status # 200 =>
            /\ r.status = 404
            /\ r.access_token = NoToken
            /\ ~known <=> r.detail = "User with given email doesn't exists."
            /\ known <=> r.detail = "Given password doesn't match the email"

\* A login refused for its password while another email is still unknown.
C6_Witness ==
    /\ resp.op = "login" /\ resp.status = 404
    /\ resp.detail = "Given password doesn't match the email"
    /\ \E e \in Emails : get_user_by_email(users, e) = None

\* C7: signup with an email that already has a user is refused (403), returns no
\* token and changes nothing: the email keeps exactly one user, and the password
\* its holder registered or logged in with is the only one that logs in.
C7_DuplicateEmail ==
    [][\A e \in Emails, p \in Passwords, s \in Salts :
        ((\E i \in DOMAIN users : users[i].email = e) /\ signup_create_user(e, p, s)) =>
            /\ resp' = Response("signup", 403, "User with given email already exists.")
            /\ UNCHANGED <<users, posts, posts_cache, held>>
            /\ Cardinality({i \in DOMAIN users' : users'[i].email = e}) = 1
            /\ (held.op # "none" /\ held.sub = e) =>
                    \A q \in Passwords :
                        log_in_result(users', e, q, clock + tz).status = 200
                            <=> q = held.password]_vars

\* A refused signup, with the first holder's credentials still in hand.
C7_Witness ==
    /\ resp.op = "signup" /\ resp.status = 403
    /\ held.op = "signup"
    /\ get_user_by_email(users, held.sub) # None

\* Why a token is refused, read off the token and the users table.
Cause(token, us, now_utc) ==
    IF token.kind # "jws" THEN "malformed"
    ELSE IF token.header.alg # ALGORITHM
            \/ base64url_decode(token.sig)
                    # HS256(SECRET_KEY, token.header, token.claims)
        THEN "signature"
    ELSE IF "exp" \in DOMAIN token.claims /\ token.claims.exp < timegm(now_utc)
        THEN "expired"
    ELSE IF "sub" \notin DOMAIN token.claims \/ token.claims.sub = "" THEN "no subject"
    ELSE IF \A i \in DOMAIN us : us[i].email # token.claims.sub THEN "unknown user"
    ELSE "none"

\* C8: a malformed token, a bad signature, an expired token, a token without a
\* subject and a good token of an unknown user all get the one Unauthorized
\* outcome from the auth gate, which changes neither store nor cache.
C8_OneUnauthorized ==
    [][\A t \in TokenInputs(clock) \cup {held.token} :
        (Cause(t, users, clock) # "none" /\ authenticate(t)) =>
            /\ resp' = Response("authenticate", 401, "Unauthorized access.")
            /\ UNCHANGED <<users, posts, posts_cache>>]_vars

\* The gate has refused a token while each of the five causes can be presented.
C8_Witness ==
    /\ resp.op = "authenticate" /\ resp.status = 401
    /\ users # <<>>
    /\ {"malformed", "signature", "expired", "no subject", "unknown user"}
            \subseteq {Cause(t, users, clock) : t \in TokenInputs(clock)}

\* C9: create_post, list_posts and delete_post with a token that does not
\* authenticate return Unauthorized and leave users, posts and cache as they were.
C9_Gated ==
    [][\A t \in TokenInputs(clock) :
        ~validate_user(t, users, clock).ok =>
            /\ (resp'.op = "add_post" /\ \E x \in Texts : add_post(t, x)) =>
                    /\ resp' = Response("add_post", 401, "Unauthorized access.")
                    /\ UNCHANGED <<users, posts, posts_cache>>
            /\ (resp'.op = "get_posts" /\ \E d \in Elapsed : get_post(t, d)) =>
                    /\ resp' = Response("get_posts", 401, "Unauthorized access.")
                    /\ UNCHANGED <<users, posts, posts_cache>>
            /\ (resp'.op = "delete_post" /\ \E i \in PostIds : delete_post(t, i)) =>
                    /\ resp' = Response("delete_post", 401, "Unauthorized access.")
                    /\ UNCHANGED <<users, posts, posts_cache>>]_vars

\* A delete was refused while there was a post to delete and a listing cached.
C9_Witness ==
    /\ resp.op = "delete_post" /\ resp.status = 401
    /\ posts # {}
    /\ DOMAIN posts_cache.data # {}

\* C10: a listing call that inserts a new key into a cache holding maxsize live
\* entries evicts exactly one of them; the evicted user's next call reads the
\* table, and every other entry is kept as it was and still served from the cache.
C10_OneEvictionAtCapacity ==
    [][\A t \in Presented(clock), d \in Elapsed :
        LET auth == validate_user(t, users, clock)
            u == auth.user.id
            live == {k \in DOMAIN posts_cache.data : Live(k, clock + d)}
            next(k) == get_all_posts_by_user_id(posts', posts_cache', k, clock', clock')
        IN (/\ auth.ok /\ get_post(t, d)
            /\ u \notin live /\ Cardinality(live) = maxsize) =>
            \E v \in live :
                /\ DOMAIN posts_cache'.data = (live \ {v}) \cup {u}
                /\ resp'.evicted = {v}
                /\ next(v).reads = 1
                /\ \A k \in live \ {v} :
                        /\ posts_cache'.data[k] = posts_cache.data[k]
                        /\ next(k).ok /\ next(k).reads = 0]_vars

\* A call has evicted a live entry and left the cache full.
C10_Witness ==
    /\ resp.op = "get_posts" /\ resp.status = 200
    /\ resp.evicted # {}
    /\ Cardinality(DOMAIN posts_cache.data) = maxsize

C12_DeleteExactlyThatPost ==
    [][\A t \in Presented(clock), i \in PostIds :
        LET existed == \E p \in posts : p.post_id = i
        IN (validate_user(t, users, clock).ok /\ delete_post(t, i)) =>
            /\ resp'.status = 200 <=> existed
            /\ existed =>
                    /\ resp'.detail = "Post deleted successfully!"
                    /\ ~\E p \in posts' : p.post_id = i
            /\ ~existed =>
                    /\ resp'.status = 404 /\ resp'.detail = "Post not found"
                    /\ posts' = posts
            /\ {p \in posts' : p.post_id # i} = {p \in posts : p.post_id # i}]_vars

\* A delete has succeeded and left another post in the table.
C12_Witness ==
    /\ resp.op = "delete_post" /\ resp.status = 200
    /\ posts # {}

\* C13: a token issued for a stored user authenticates, and resolves to that
\* user, at every time before its expiry (issue time + TokenTTL), whatever
\* signups and logins have happened since.
C13_UsableWholeLifetime ==
    (held.op # "none" /\ clock < held.iat + TokenTTL) =>
        LET a == validate_user(held.token, users, clock)
        IN /\ a.ok
           /\ a.user.email = held.sub
           /\ a.user = get_user_by_email(users, held.sub)

\* C14: a token whose signature part is not the one issue produces for its
\* payload (the signature altered, or the payload changed under the old
\* signature) never authenticates.
C14_AlteredSignatureRejected ==
    \A t \in TokenInputs(clock) \cup {held.token} :
        (/\ t.kind = "jws"
         /\ t.sig # base64url_encode(HS256(SECRET_KEY, [alg |-> ALGORITHM], t.claims))) =>
            ~validate_user(t, users, clock).ok

\* C15: from the empty store, signup(a) -> A, login(a) -> B, create_post(A,
\* "hello"), list_posts(A), delete_post(A, 1) and list_posts(A) after the cache
\* TTL give: A and B authenticate to the same user, the post gets id 1, the
\* first listing is that one post, the delete succeeds, the last listing is empty.
C15_Scenario ==
    LET a == validate_user(held.token, users, clock)
        b == validate_user(resp.access_token, users, clock)
        hello == [post_id |-> 1, text |-> "hello", user_id |-> a.user.id]
    IN /\ resp.op = "login" =>
            /\ resp.status = 200
            /\ a.ok /\ b.ok /\ a.user = b.user /\ a.user.email = "a@x.com"
       /\ resp.op = "add_post" =>
            /\ resp.status = 200 /\ resp.post_id = 1
            /\ posts = {hello}
       /\ (resp.op = "get_posts" /\ posts # {}) =>
            /\ resp.status = 200
            /\ resp.posts = <<hello>>
       /\ resp.op = "delete_post" =>
            /\ resp.status = 200
            /\ posts = {}
       /\ (resp.op = "get_posts" /\ posts = {}) =>
            /\ resp.status = 200
            /\ resp.posts = <<>>

\* What a write leaves of the cache: all of it, so that every user with a live
\* entry is still served that entry, as it was before the write, until it expires.
NotInvalidated ==
    /\ posts_cache' = posts_cache
    /\ \A u \in DOMAIN posts_cache.data, time \in clock..MaxTime :
            Live(u, time) =>
                LET listed == get_all_posts_by_user_id(posts', posts_cache', u, time, time)
                IN /\ listed.ok /\ listed.reads = 0
                   /\ listed.posts = posts_cache.data[u].value

\* C16: create_post and delete_post leave the cache as it is, so a user with a
\* live entry who lists after the write and before the entry expires gets the
\* listing from before the write.
C16_NoInvalidationOnWrite ==
    [][\A t \in Presented(clock) :
        validate_user(t, users, clock).ok =>
            /\ (resp'.op = "add_post" /\ \E x \in Texts : add_post(t, x)) => NotInvalidated
            /\ (resp'.op = "delete_post" /\ \E i \in PostIds : delete_post(t, i)) =>
                    NotInvalidated]_vars

\* A user was served a post that had already been deleted.
C16_Witness ==
    /\ resp.op = "get_posts" /\ resp.status = 200 /\ resp.reads = 0
    /\ resp.posts # <<>>
    /\ QueryPostsByUser(posts, resp.user_id) = <<>>

\* C17: the cache never holds more than maxsize keys; a listing call, hit or
\* insertion, makes its user the most recently used and leaves the order of the
\* others alone (an insertion first drops the expired ones); and the entry an
\* insertion evicts is the least recently used of the live ones, never the one
\* inserted.
C17_LeastRecentlyUsed ==
    [][\A t \in Presented(clock), d \in Elapsed :
        LET auth == validate_user(t, users, clock)
            u == auth.user.id
            live == SelectSeq(posts_cache.links, LAMBDA k : Live(k, clock + d))
            before == IF resp'.reads = 0 THEN posts_cache.links ELSE live
            order == posts_cache'.links
        IN (auth.ok /\ get_post(t, d) /\ resp'.status = 200) =>
            /\ Cardinality(DOMAIN posts_cache'.data) <= maxsize
            /\ {order[n] : n \in DOMAIN order} = DOMAIN posts_cache'.data
            /\ Len(order) = Cardinality(DOMAIN posts_cache'.data)
            /\ order[Len(order)] = u
            /\ Without(order, u)
                    = SelectSeq(Without(before, u), LAMBDA k : k \notin resp'.evicted)
            /\ resp'.evicted # {} =>
                    /\ resp'.evicted = {Head(live)}
                    /\ u \notin resp'.evicted]_vars

\* An insertion has evicted an entry and its user is now the most recently used.
C17_Witness ==
    /\ resp.op = "get_posts" /\ resp.status = 200 /\ resp.reads = 1
    /\ resp.evicted # {} /\ resp.user_id \notin resp.evicted
    /\ Len(posts_cache.links) = maxsize
    /\ posts_cache.links[maxsize] = resp.user_id

\* C18: every post in the table is owned by a user in the users table.
C18_OwnersExist ==
    \A p \in posts : \E n \in DOMAIN users : users[n].id = p.user_id

\* A post has just been created, for the user the token authenticated to.
C18_Witness ==
    /\ resp.op = "add_post" /\ resp.status = 200
    /\ \E p \in posts : p.post_id = resp.post_id /\ p.user_id = resp.user_id
    /\ \E n \in DOMAIN users : users[n].id = resp.user_id /\ users[n].email = "c@x.com"

\* C19: get_all_posts_by_user_id returns a listing for every user at every
\* time, also when the user's entry expires between the membership test and
\* the read of the entry.
C19_AlwaysAListing ==
    \A n \in DOMAIN users, d \in Elapsed :
        get_all_posts_by_user_id(posts, posts_cache, users[n].id, clock, clock + d).ok

\* C20: a post leaves the table only through a delete_post request that
\* authenticated as the post's owner.
C20_OnlyOwnerDeletes ==
    [][\A p \in posts :
        p \notin posts' =>
            /\ resp'.op = "delete_post" /\ resp'.status = 200
            /\ resp'.user_id = p.user_id]_vars

\* C21: a listing returned to a user holds only that user's posts, whether it
\* was queried or served from the cache, and the cache entry of a user never
\* holds a post of another user.
C21_OnlyOwnPosts ==
    /\ (resp.op = "get_posts" /\ resp.status = 200) =>
            \A n \in DOMAIN resp.posts : resp.posts[n].user_id = resp.user_id
    /\ \A u \in DOMAIN posts_cache.data :
            LET rows == posts_cache.data[u].value.rows
            IN \A n \in DOMAIN rows : rows[n].user_id = u

\* A user was listed a post of their own while the cache also held the listing,
\* with a post in it, of another user.
C21_Witness ==
    /\ resp.op = "get_posts" /\ resp.status = 200
    /\ resp.posts # <<>>
    /\ \E k \in DOMAIN posts_cache.data :
            k # resp.user_id /\ posts_cache.data[k].value.rows # <<>>

====
